---------------------------- MODULE Spec2Model ----------------------------
(***************************************************************************)
(* ZScoreMapper (mvpa/mappers/zscore.py): estimation of per-chunk or       *)
(* global (mean, std) parameters, their application to a dataset or to a   *)
(* plain array, and the in-place convenience function zscore().            *)
(*                                                                         *)
(* Arithmetic is binary floating point, round to nearest even, with a      *)
(* significand of Precision bits and an unbounded exponent; a number is    *)
(* the rational [num, den] in lowest terms it stands for, den = 0 marking  *)
(* the non-finite values (nan, inf).  Each numpy operation on an entry     *)
(* rounds once.  Overflow and underflow are not modelled.                  *)
(***************************************************************************)
EXTENDS Integers, Sequences, FiniteSets, TLC

\* The mapper: the fields of a ZScoreMapper
VARIABLES chunks, params, param_est, params_dict, dtype, inplace
\* The last call: the operation, its argument as passed, the arrays after
\* it, the array the caller's dataset names, the value returned, the
\* exception raised ("ok" for none), the chunks the per-chunk loop rescaled,
\* and the keys __params_dict held before a call of train
VARIABLES op, arg, heap, dsref, ret, exc, done, had

mapper == <<chunks, params, param_est, params_dict, dtype, inplace>>
vars   == <<chunks, params, param_est, params_dict, dtype, inplace,
            op, arg, heap, dsref, ret, exc, done, had>>

---------------------------------------------------------------------------
(* Bounds of the enumerated inputs *)

MaxRows == 2
MaxFeat == 2
MaxVal  == 1

\* the single-column datasets of the specification SpecTall
MaxTallRows == 3
MaxTallVal  == 3

ChunkIds   == {"c1", "c2"}
TargetIds  == {"rest", "task"}
DataDTypes == {"int", "float64"}

None == [kind |-> "None"]

---------------------------------------------------------------------------
(* Numbers: binary floating point *)

\* bits of the significand the model keeps (float64 keeps 53)
Precision == 3

Half == 2 ^ (Precision - 1)
Full == 2 ^ Precision

Zero == [num |-> 0, den |-> 1]
NaN  == [num |-> 0, den |-> 0]
Inf(s) == [num |-> s, den |-> 0]

IsFinite(a) == a.den # 0

RECURSIVE GCD(_, _)
GCD(a, b) == IF b = 0 THEN a ELSE GCD(b, a % b)

Sign(x) == IF x > 0 THEN 1 ELSE IF x < 0 THEN -1 ELSE 0
Abs(x) == IF x < 0 THEN -x ELSE x

\* the rational p / q (q > 0) in lowest terms
Rat(p, q) ==
    LET g == GCD(Abs(p), q) IN [num |-> p \div g, den |-> q \div g]

\* the integer nearest to p / q, ties to the even one
Nearest(p, q) ==
    LET m == p \div q
        r == p % q
    IN  IF 2 * r < q THEN m
        ELSE IF 2 * r > q THEN m + 1
        ELSE IF m % 2 = 0 THEN m ELSE m + 1

\* the float nearest to (p / q) * (up / down), p and q positive: p / q is
\* scaled by powers of two until its integer part has Precision bits
RECURSIVE RoundPos(_, _, _, _)
RoundPos(p, q, up, down) ==
    IF p < q * Half THEN RoundPos(2 * p, q, up, 2 * down)
    ELSE IF p >= q * Full THEN RoundPos(p, 2 * q, 2 * up, down)
    ELSE Rat(Nearest(p, q) * up, down)

\* the float nearest to p / q (q > 0), round to nearest even
Fl(p, q) ==
    IF p = 0 THEN Zero
    ELSE LET r == RoundPos(Abs(p), q, 1, 1)
         IN  [num |-> Sign(p) * r.num, den |-> r.den]

FromInt(x) == Fl(x, 1)

\* a + b, a - b, a * b: nan as soon as an operand is not finite (inf
\* arises only as a final quotient)
Add(a, b) ==
    IF ~IsFinite(a) \/ ~IsFinite(b) THEN NaN
    ELSE Fl(a.num * b.den + b.num * a.den, a.den * b.den)

Sub(a, b) ==
    IF ~IsFinite(a) \/ ~IsFinite(b) THEN NaN
    ELSE Fl(a.num * b.den - b.num * a.den, a.den * b.den)

Mul(a, b) ==
    IF ~IsFinite(a) \/ ~IsFinite(b) THEN NaN
    ELSE Fl(a.num * b.num, a.den * b.den)

\* a / b as IEEE division: x/0 is inf, 0/0 and anything with nan is nan
Div(a, b) ==
    IF ~IsFinite(a) \/ ~IsFinite(b) THEN NaN
    ELSE IF b = Zero THEN (IF a = Zero THEN NaN ELSE Inf(Sign(a.num)))
    ELSE Fl(Sign(b.num) * a.num * b.den, a.den * Abs(b.num))

\* the float nearest to sqrt(p / q) * (up / down), p and q positive: p / q
\* is scaled by powers of four until its root has Precision bits
RECURSIVE SqrtPos(_, _, _, _)
SqrtPos(p, q, up, down) ==
    IF p < q * Half * Half THEN SqrtPos(4 * p, q, up, 2 * down)
    ELSE IF p >= q * Full * Full THEN SqrtPos(p, 4 * q, 2 * up, down)
    ELSE LET m == CHOOSE k \in Half..(Full - 1) :
                      k * k * q <= p /\ (k + 1) * (k + 1) * q > p
             c == (2 * m + 1) * (2 * m + 1) * q
             r == IF 4 * p < c THEN m
                  ELSE IF 4 * p > c THEN m + 1
                  ELSE IF m % 2 = 0 THEN m ELSE m + 1
         IN  Rat(r * up, down)

\* sqrt(a), a not negative
Sqrt(a) ==
    IF ~IsFinite(a) THEN NaN
    ELSE IF a = Zero THEN Zero
    ELSE SqrtPos(a.num, a.den, 1, 1)

\* the sequence f, evaluated once into a tuple
Tup(f) == f \o <<>>

\* the function f, evaluated once into an explicit mapping
Map(f) == f @@ <<>>

\* add.reduce over the first k entries of a column, in their order
RECURSIVE Sum(_, _)
Sum(col, k) ==
    IF k = 1 THEN col[1] ELSE Add(Sum(col, k - 1), col[k])

\* ndarray.mean over one column: the sum divided by the number of rows,
\* nan for an empty column
Mean(col) ==
    IF col = <<>> THEN NaN
    ELSE Div(Sum(col, Len(col)), FromInt(Len(col)))

\* ndarray.std over one column (ddof = 0): sqrt(mean(|x - mean|^2))
Std(col) ==
    IF col = <<>> THEN NaN
    ELSE LET m  == Mean(col)
             sq == Tup([i \in DOMAIN col |->
                        Mul(Sub(col[i], m), Sub(col[i], m))])
         IN  Sqrt(Div(Sum(sq, Len(sq)), FromInt(Len(col))))

---------------------------------------------------------------------------
(* Arrays: [dtype, nf, rows], rows a sequence of rows of nf numbers *)

Column(rows, j) == Tup([i \in DOMAIN rows |-> rows[i][j]])

\* rows[slicer], slicer a sequence of row indices
Take(rows, slicer) == Tup([k \in DOMAIN slicer |-> rows[slicer[k]]])

\* N.where(cond)[0]: the indices of 1..n that are in S, ascending
RECURSIVE Where(_, _)
Where(n, S) ==
    IF n = 0 THEN <<>>
    ELSE IF n \in S THEN Append(Where(n - 1, S), n) ELSE Where(n - 1, S)

Scalar(x) == [scalar |-> TRUE, v |-> x]
Vector(xs) == [scalar |-> FALSE, v |-> xs]

\* ZScoreMapper._compute_params
_compute_params(nf, rows) ==
    [mean |-> Vector(Tup([j \in 1..nf |-> Mean(Column(rows, j))])),
     std  |-> Vector(Tup([j \in 1..nf |-> Std(Column(rows, j))]))]

\* samples -= mean
Demean(rows, mean) ==
    Tup([i \in DOMAIN rows |-> Tup([j \in DOMAIN rows[i] |->
        Sub(rows[i][j], IF mean.scalar THEN mean.v ELSE mean.v[j])])])

\* the scaling step of _zscore, once the shapes are known to fit
Scale(rows, std) ==
    IF std.scalar
    THEN Tup([i \in DOMAIN rows |-> Tup([j \in DOMAIN rows[i] |->
            IF std.v = Zero THEN Zero ELSE Div(rows[i][j], std.v)])])
    ELSE Tup([i \in DOMAIN rows |-> Tup([j \in DOMAIN rows[i] |->
            IF std.v[j] # Zero THEN Div(rows[i][j], std.v[j]) ELSE rows[i][j]])])

\* ZScoreMapper._zscore on an array of nf columns: the outcome and what the
\* array passed in holds when the call returns or raises
_zscore(nf, rows, mean, std) ==
    IF ~(mean.scalar \/ nf = Len(mean.v))
    THEN [exc |-> "ShapeMismatch", rows |-> rows]
    ELSE IF ~std.scalar /\ nf # Len(std.v)
    THEN [exc |-> "ShapeMismatch", rows |-> Demean(rows, mean)]
    ELSE [exc |-> "ok", rows |-> Scale(Demean(rows, mean), std)]

---------------------------------------------------------------------------
(* Datasets and plain arrays handed in by the caller *)

Values == {FromInt(v) : v \in 0..MaxVal}

RowsOf(n, nf) == [1..n -> [1..nf -> Values]]

Arrays ==
    UNION {UNION {{[kind |-> "array", dtype |-> t, nf |-> nf, rows |-> r,
                    attrs |-> FALSE, chunks |-> <<>>, targets |-> <<>>]
                   : t \in DataDTypes, r \in RowsOf(n, nf)}
                  : nf \in 1..MaxFeat} : n \in 1..MaxRows}

Datasets ==
    UNION {UNION {{[kind |-> "dataset", dtype |-> t, nf |-> nf, rows |-> r,
                    attrs |-> TRUE, chunks |-> c, targets |-> g]
                   : t \in DataDTypes, r \in RowsOf(n, nf),
                     c \in [1..n -> ChunkIds], g \in [1..n -> TargetIds]}
                  : nf \in 1..MaxFeat} : n \in 1..MaxRows}

\* datasets of one feature and one chunk, with more rows and larger values:
\* the columns on which the sum of a mean is rounded
TallDatasets ==
    UNION {{[kind |-> "dataset", dtype |-> t, nf |-> 1,
             rows |-> [i \in 1..n |-> <<FromInt(r[i])>>],
             attrs |-> TRUE, chunks |-> [i \in 1..n |-> "c1"],
             targets |-> [i \in 1..n |-> "task"]]
            : t \in DataDTypes, r \in [1..n -> 0..MaxTallVal]}
           : n \in 1..MaxTallRows}

\* Dataset(ds) of a plain array: the samples and no sample attribute
Dataset(a) == [a EXCEPT !.kind = "dataset"]

\* ds.sa[attr].unique, as a set
Unique(seq) == {seq[i] : i \in DOMAIN seq}

\* the orders in which a loop may visit the unique values
Orders(S) ==
    {o \in [1..Cardinality(S) -> S] : \A i, j \in DOMAIN o : i # j => o[i] # o[j]}

\* get_samples_by_attr(ds, attr, values): 'targets' is the one attribute
\* a selector names here
get_samples_by_attr(ds, values) ==
    {i \in DOMAIN ds.targets : ds.targets[i] \in values}

\* The heap of a call holds two array objects: "in", the array the caller
\* passed (the samples of its dataset, or the plain array), and "out", the
\* array allocated during the call that the caller's dataset or the value
\* returned names afterwards (Null when there is none).
Buffer(t, nf, rows) == [dtype |-> t, nf |-> nf, rows |-> rows]
InputBuffer(x) == Buffer(x.dtype, x.nf, x.rows)
Null == [dtype |-> "null", nf |-> 0, rows |-> <<>>]
Heap(in, out) == [in |-> in, out |-> out]

\* the value a call returns: None, or a dataset or array naming a heap object
NoRet == [kind |-> "none", buf |-> "none"]

---------------------------------------------------------------------------
(* Construction: ZScoreMapper.__init__ *)

Tuple(mean, std) == [kind |-> "tuple", mean |-> mean, std |-> std]
Dict(d) == [kind |-> "dict", d |-> d]
Pair(p) == [mean |-> p.mean, std |-> p.std]

\* fixed parameters a caller may pass: a scalar pair with std 0, a pair with
\* a per-feature std of two features, a per-chunk dictionary without 'c2'
FixedParams ==
    {Tuple(Scalar(FromInt(1)), Scalar(Zero)),
     Tuple(Scalar(FromInt(1)), Vector(<<FromInt(2), Zero>>)),
     Dict("c1" :> [mean |-> Scalar(FromInt(1)), std |-> Scalar(FromInt(2))])}

Selector(values) == [kind |-> "selector", attr |-> "targets", values |-> values]

Init ==
    /\ chunks \in {"None", "chunks"}
    /\ params \in {None} \cup FixedParams
    /\ param_est \in {None, Selector({"task"})}
    /\ params_dict = None
    /\ dtype = "float64"
    /\ inplace = FALSE
    /\ op = "idle"
    /\ arg = None
    /\ heap = Heap(Null, Null)
    /\ dsref = "none"
    /\ ret = NoRet
    /\ exc = "ok"
    /\ done = <<>>
    /\ had = {}

---------------------------------------------------------------------------
(* ZScoreMapper._train *)

\* the per-chunk estimate: params[c] for every unique chunk value
ChunkEstimate(pe, ds) ==
    Map([c \in Unique(ds.chunks) |->
        LET slicer == {i \in DOMAIN ds.chunks : ds.chunks[i] = c}
            used   == IF pe = None THEN slicer
                      ELSE get_samples_by_attr(ds, pe.values) \cap slicer
        IN  _compute_params(ds.nf, Take(ds.rows, Where(Len(ds.rows), used)))])

\* _train with chunks ch, fixed parameters pr and selector pe: the outcome
\* and the dictionary it binds to __params_dict (None when it raises)
_train(ch, pr, pe, ds) ==
    IF pr # None
    THEN [exc |-> "ok",
          params_dict |-> IF pr.kind = "dict" THEN pr.d
                          ELSE "__all__" :> Pair(pr)]
    ELSE IF (pe # None \/ ch # "None") /\ ~ds.attrs
    THEN [exc |-> "AttributeError", params_dict |-> None]
    ELSE IF ch # "None"
    THEN [exc |-> "ok", params_dict |-> ChunkEstimate(pe, ds)]
    ELSE IF pe # None
    THEN \* ds.samples[est_ids] with est_ids a set: no valid array index
         [exc |-> "IndexError", params_dict |-> None]
    ELSE [exc |-> "ok",
          params_dict |-> "__all__" :> _compute_params(ds.nf, ds.rows)]

---------------------------------------------------------------------------
(* ZScoreMapper._forward_dataset *)

\* Dataset.copy(deep=False) of the dataset whose samples are the object
\* ref: the samples of the duplicate are a new array object
ShallowCopy(ref) == "out"

\* ndarray.astype(dtype): a new array object; AsType gives its contents
NewArray(ref) == "out"
AsType(b, t) == [b EXCEPT !.dtype = t]

IsInteger(b) == b.dtype = "int"

\* rows[slicer] = sub left out: the rescaled copy of the rows is dropped
PutDropped(rows, slicer, sub) == rows

\* rows[slicer] = sub
Put(rows, slicer, sub) ==
    Tup([i \in DOMAIN rows |->
        IF \E k \in DOMAIN slicer : slicer[k] = i
        THEN sub[CHOOSE k \in DOMAIN slicer : slicer[k] = i]
        ELSE rows[i]])

\* the per-chunk loop passing over a chunk that has no parameters
RECURSIVE ChunkLoopSkip(_, _, _, _, _, _)
ChunkLoopSkip(pd, ds, o, k, b, seen) ==
    IF k > Len(o) THEN [exc |-> "ok", buf |-> b, done |-> seen]
    ELSE LET c == o[k] IN
         IF c \notin DOMAIN pd
         THEN ChunkLoopSkip(pd, ds, o, k + 1, b, seen)
         ELSE LET slicer == Where(Len(b.rows),
                                  {i \in DOMAIN ds.chunks : ds.chunks[i] = c})
                  z == _zscore(b.nf, Take(b.rows, slicer), pd[c].mean, pd[c].std)
              IN  IF z.exc # "ok"
                  THEN [exc |-> z.exc, buf |-> b, done |-> seen]
                  ELSE ChunkLoopSkip(pd, ds, o, k + 1,
                                 [b EXCEPT !.rows = Put(b.rows, slicer, z.rows)],
                                 Append(seen, c))

\* the per-chunk loop (lines 184-192) over the unique chunk values in the
\* order o, from position k on, on the array b of mds: the outcome, the
\* array and the chunks rescaled so far.  _zscore works on the copy that
\* mds.samples[slicer] makes; the assignment writes it back.
RECURSIVE ChunkLoop(_, _, _, _, _, _)
ChunkLoop(pd, ds, o, k, b, seen) ==
    IF k > Len(o) THEN [exc |-> "ok", buf |-> b, done |-> seen]
    ELSE LET c == o[k] IN
         IF c \notin DOMAIN pd
         THEN [exc |-> "MissingGroup", buf |-> b, done |-> seen]
         ELSE LET slicer == Where(Len(b.rows),
                                  {i \in DOMAIN ds.chunks : ds.chunks[i] = c})
                  z == _zscore(b.nf, Take(b.rows, slicer), pd[c].mean, pd[c].std)
              IN  IF z.exc # "ok"
                  THEN [exc |-> z.exc, buf |-> b, done |-> seen]
                  ELSE ChunkLoop(pd, ds, o, k + 1,
                                 [b EXCEPT !.rows = Put(b.rows, slicer, z.rows)],
                                 Append(seen, c))

\* the rescaling of mds.samples (lines 179-192)
Rescale(ch, pd, ds, o, b) ==
    IF "__all__" \in DOMAIN pd
    THEN LET z == _zscore(b.nf, b.rows, pd["__all__"].mean, pd["__all__"].std)
         IN  [exc |-> z.exc, buf |-> [b EXCEPT !.rows = z.rows], done |-> <<>>]
    ELSE IF ch = "None"
    THEN \* mds.sa[None]: no such attribute
         [exc |-> "AttributeError", buf |-> b, done |-> <<>>]
    ELSE ChunkLoop(pd, ds, o, 1, b, <<>>)

\* lines 169-194, for a trained mapper: the outcome, the heap, the object
\* ds.samples names afterwards, the value returned, the chunks rescaled
Forward(ch, pd, dt, inpl, ds, o) ==
    LET in   == InputBuffer(ds)
        mds0 == IF inpl THEN "in" ELSE ShallowCopy("in")
        mds  == IF IsInteger(in) THEN NewArray(mds0) ELSE mds0
        r    == Rescale(ch, pd, ds, o, IF IsInteger(in) THEN AsType(in, dt) ELSE in)
    IN  [exc   |-> r.exc,
         heap  |-> IF mds = "in" THEN Heap(r.buf, Null)
                   ELSE IF inpl \/ r.exc = "ok" THEN Heap(in, r.buf)
                   ELSE Heap(in, Null),
         dsref |-> IF inpl THEN mds ELSE "in",
         ret   |-> IF r.exc = "ok" THEN [kind |-> "dataset", buf |-> mds]
                   ELSE NoRet,
         done  |-> r.done]

\* _forward_dataset training itself on first use
_forward_dataset_autotrain(ch, pd, dt, inpl, ds, o) ==
    Forward(ch, IF pd = None THEN _train(ch, None, None, ds).params_dict ELSE pd,
            dt, inpl, ds, o)

\* _forward_dataset of the dataset ds with the stored dictionary pd
_forward_dataset(ch, pd, dt, inpl, ds, o) ==
    IF pd = None
    THEN [exc |-> "NotTrained", heap |-> Heap(InputBuffer(ds), Null),
          dsref |-> "in", ret |-> NoRet, done |-> <<>>]
    ELSE Forward(ch, pd, dt, inpl, ds, o)

---------------------------------------------------------------------------
(* ZScoreMapper._forward_data *)

\* mdata = data: no copy is made
CopyAlias(ref) == ref

\* data.copy(): a new array object
Copy(ref) == "out"

\* lines 212-220, for a trained mapper without chunks and selector
ForwardArray(pd, dt, a) ==
    LET in    == InputBuffer(a)
        mdata == IF IsInteger(in) THEN NewArray("in") ELSE Copy("in")
        start == IF IsInteger(in) THEN AsType(in, dt) ELSE in
    IN  IF "__all__" \notin DOMAIN pd
        THEN [exc |-> "KeyError", heap |-> Heap(in, Null), ret |-> NoRet]
        ELSE LET z == _zscore(start.nf, start.rows,
                              pd["__all__"].mean, pd["__all__"].std)
                 b == [start EXCEPT !.rows = z.rows]
             IN  [exc  |-> z.exc,
                  heap |-> IF mdata = "in" THEN Heap(b, Null)
                           ELSE IF z.exc = "ok" THEN Heap(in, b)
                           ELSE Heap(in, Null),
                  ret  |-> IF z.exc = "ok" THEN [kind |-> "array", buf |-> mdata]
                           ELSE NoRet]

\* _forward_data asking for the training before the configuration
_forward_data_trained_first(ch, pe, pd, dt, a) ==
    LET fail(e) == [exc |-> e, heap |-> Heap(InputBuffer(a), Null), ret |-> NoRet]
    IN  IF pd = None THEN fail("NotTrained")
        ELSE IF ch # "None" THEN fail("BareMatrix")
        ELSE IF pe # None THEN fail("BareMatrix")
        ELSE ForwardArray(pd, dt, a)

_forward_data(ch, pe, pd, dt, a) ==
    LET fail(e) == [exc |-> e, heap |-> Heap(InputBuffer(a), Null), ret |-> NoRet]
    IN  IF ch # "None" THEN fail("BareMatrix")
        ELSE IF pe # None THEN fail("BareMatrix")
        ELSE IF pd = None THEN fail("NotTrained")
        ELSE ForwardArray(pd, dt, a)

---------------------------------------------------------------------------
(* zscore(ds, **kwargs) *)

\* zm = ZScoreMapper(**kwargs) with the in-place switch set, zm.train,
\* zm(ds), and no return statement: the value returned is None, and the
\* array zm(ds) returns for a plain array is dropped.  params_dict is the
\* dictionary of zm afterwards.
zscore(ch, pr, pe, dt, x, o) ==
    LET isds == x.kind = "dataset"
        t    == _train(ch, pr, pe, IF isds THEN x ELSE Dataset(x))
    IN  IF t.exc # "ok"
        THEN [exc |-> t.exc, heap |-> Heap(InputBuffer(x), Null),
              dsref |-> IF isds THEN "in" ELSE "none", ret |-> NoRet,
              done |-> <<>>, params_dict |-> None]
        ELSE IF isds
        THEN LET m == _forward_dataset(ch, t.params_dict, dt, TRUE, x, o)
             IN  [exc |-> m.exc, heap |-> m.heap, dsref |-> m.dsref,
                  ret |-> NoRet, done |-> m.done,
                  params_dict |-> t.params_dict]
        ELSE LET m == _forward_data(ch, pe, t.params_dict, dt, x)
             IN  [exc |-> m.exc, heap |-> Heap(m.heap.in, Null),
                  dsref |-> "none", ret |-> NoRet, done |-> <<>>,
                  params_dict |-> t.params_dict]

---------------------------------------------------------------------------
(* Actions: one call each, on a dataset or array the caller hands in *)

\* the new dictionary merged into the stored one
StoreUpdate(old, new) == IF old = None THEN new ELSE new @@ old

\* self.__params_dict = params
Store(old, new) == new

Train(ds) ==
    /\ \E t \in {_train(chunks, params, param_est, ds)} :
           /\ params_dict' = IF t.exc = "ok" THEN Store(params_dict, t.params_dict)
                              ELSE params_dict
           /\ exc' = t.exc
    /\ op' = "train"
    /\ arg' = ds
    /\ heap' = Heap(InputBuffer(ds), Null)
    /\ dsref' = "in"
    /\ ret' = NoRet
    /\ done' = <<>>
    /\ had' = IF params_dict = None THEN {} ELSE DOMAIN params_dict
    /\ UNCHANGED <<chunks, params, param_est, dtype, inplace>>

ForwardDataset(ds, o) ==
    /\ \E m \in {_forward_dataset(chunks, params_dict, dtype, inplace, ds, o)} :
           /\ exc' = m.exc
           /\ heap' = m.heap
           /\ dsref' = m.dsref
           /\ ret' = m.ret
           /\ done' = m.done
    /\ op' = "forward_dataset"
    /\ arg' = ds
    /\ had' = {}
    /\ UNCHANGED mapper

ForwardData(a) ==
    /\ \E m \in {_forward_data(chunks, param_est, params_dict, dtype, a)} :
           /\ exc' = m.exc
           /\ heap' = m.heap
           /\ ret' = m.ret
    /\ op' = "forward_data"
    /\ arg' = a
    /\ dsref' = "none"
    /\ done' = <<>>
    /\ had' = {}
    /\ UNCHANGED mapper

\* zscore(x, chunks=..., params=..., param_est=..., dtype=...): the mapper
\* at hand is the mapper zm the function constructs, so the call starts
\* from the state after construction; zm is appended to the dataset and
\* may be used again afterwards
ZScore(x, o) ==
    /\ params_dict = None
    /\ ~inplace
    /\ \E m \in {zscore(chunks, params, param_est, dtype, x, o)} :
           /\ exc' = m.exc
           /\ heap' = m.heap
           /\ dsref' = m.dsref
           /\ ret' = m.ret
           /\ done' = m.done
           /\ params_dict' = m.params_dict
    /\ op' = "zscore"
    /\ arg' = x
    /\ inplace' = TRUE
    /\ had' = {}
    /\ UNCHANGED <<chunks, params, param_est, dtype>>

\* the caller lets go of the arguments and result of the last call
Release ==
    /\ op # "idle"
    /\ op' = "idle"
    /\ arg' = None
    /\ heap' = Heap(Null, Null)
    /\ dsref' = "none"
    /\ ret' = NoRet
    /\ exc' = "ok"
    /\ done' = <<>>
    /\ had' = {}
    /\ UNCHANGED mapper

Idle == op = "idle"

Next ==
    \/ Idle /\ \E ds \in Datasets : Train(ds)
    \/ Idle /\ \E ds \in Datasets :
                 \E o \in Orders(Unique(ds.chunks)) : ForwardDataset(ds, o)
    \/ Idle /\ \E a \in Arrays : ForwardData(a)
    \/ Idle /\ params_dict = None /\ ~inplace /\ \E x \in Datasets \cup Arrays :
                 \E o \in Orders(Unique(x.chunks)) : ZScore(x, o)
    \/ Release

Spec == Init /\ [][Next]_vars

\* fit and apply on the single-column datasets
NextTall ==
    \/ Idle /\ \E ds \in TallDatasets : Train(ds)
    \/ Idle /\ \E ds \in TallDatasets :
                 \E o \in Orders(Unique(ds.chunks)) : ForwardDataset(ds, o)
    \/ Release

SpecTall == Init /\ [][NextTall]_vars

---------------------------------------------------------------------------
(* Properties *)

\* the chunk of parameters p that applies to feature j
Component(p, j) == IF p.scalar THEN p.v ELSE p.v[j]

\* the z-score of x in feature j under the pair (mean, std): a zero scalar
\* std gives 0, a zero per-feature std leaves x - mean
ZValue(x, pair, j) ==
    IF Component(pair.std, j) = Zero
    THEN (IF pair.std.scalar THEN Zero ELSE Sub(x, Component(pair.mean, j)))
    ELSE Div(Sub(x, Component(pair.mean, j)), Component(pair.std, j))

\* the row indices of the chunk c of the dataset ds
RowsOfChunk(ds, c) == {i \in DOMAIN ds.chunks : ds.chunks[i] = c}

\* the groups of rows the mapper's configuration makes of the dataset ds,
\* by the key their parameters are stored under
GroupKeys(ds) == IF chunks = "None" THEN {"__all__"} ELSE Unique(ds.chunks)
GroupRows(ds, key) ==
    IF key = "__all__" THEN DOMAIN ds.rows ELSE RowsOfChunk(ds, key)

\* the rows of a group that the selector admits to the estimation
Eligible(ds, key) ==
    IF param_est = None THEN GroupRows(ds, key)
    ELSE {i \in GroupRows(ds, key) : ds.targets[i] \in param_est.values}

\* (mean, std) per feature over the set S of rows of ds
StatsOver(ds, S) ==
    [mean |-> Vector([j \in 1..ds.nf |->
                 Mean(Column(Take(ds.rows, Where(Len(ds.rows), S)), j))]),
     std  |-> Vector([j \in 1..ds.nf |->
                 Std(Column(Take(ds.rows, Where(Len(ds.rows), S)), j))])]

\* the stored vectors of the chunks of arg have arg's number of features
ShapesFit ==
    \A c \in Unique(arg.chunks) \cap DOMAIN params_dict :
        /\ params_dict[c].mean.scalar \/ Len(params_dict[c].mean.v) = arg.nf
        /\ params_dict[c].std.scalar \/ Len(params_dict[c].std.v) = arg.nf

\* the mapper at hand was fitted on the dataset of the call
FittedOnArg ==
    /\ params = None
    /\ params_dict # None
    /\ \A t \in {_train(chunks, params, param_est, arg)} :
           t.exc = "ok" /\ t.params_dict = params_dict

C2_CopyModeKeepsInput ==
    ((op = "forward_dataset" /\ ~inplace) \/ op = "forward_data")
    => /\ heap.in = InputBuffer(arg)
       /\ (op = "forward_dataset" => dsref = "in")
       /\ (exc = "ok" => ret.buf = "out" /\ heap.out # Null)
       /\ (exc # "ok" => ret = NoRet)

C2_Witness ==
    /\ op = "forward_dataset"
    /\ ~inplace
    /\ arg.dtype = "float64"
    /\ exc = "ok"
    /\ heap.out.rows # arg.rows
    /\ heap.in.rows = arg.rows

\* C3: zscore(ds, options) returns the normalized data that a ZScoreMapper
\* with the same options produces by fit followed by apply, and a dataset
\* passed in holds the normalized values afterwards.
C3_ZscoreReturnsNormalized ==
    (op = "zscore" /\ exc = "ok")
    => \A x \in {IF arg.kind = "dataset" THEN arg ELSE Dataset(arg)} :
       \A t \in {_train(chunks, params, param_est, x)} :
       \A m \in {IF arg.kind = "dataset"
                 THEN _forward_dataset(chunks, t.params_dict, dtype, FALSE, arg,
                                       CHOOSE o \in Orders(Unique(arg.chunks)) : TRUE)
                 ELSE _forward_data(chunks, param_est, t.params_dict, dtype, arg)} :
           /\ m.exc = "ok"
           /\ ret.kind # "none"
           /\ heap[ret.buf].rows = m.heap.out.rows
           /\ (arg.kind = "dataset" => heap[dsref].rows = m.heap.out.rows)

\* what holds of zscore on a dataset: the dataset holds the normalized
\* values afterwards, and nothing is returned
ZscoreDatasetInPlace ==
    (op = "zscore" /\ exc = "ok" /\ arg.kind = "dataset")
    => \A t \in {_train(chunks, params, param_est, arg)} :
       \A m \in {_forward_dataset(chunks, t.params_dict, dtype, FALSE, arg,
                                  CHOOSE o \in Orders(Unique(arg.chunks)) : TRUE)} :
           /\ m.exc = "ok"
           /\ heap[dsref].rows = m.heap.out.rows
           /\ ret = NoRet

\* what holds of zscore on a plain array: the array is as it was and
\* nothing is returned
ZscoreArrayLost ==
    (op = "zscore" /\ arg.kind = "array")
    => (heap = Heap(InputBuffer(arg), Null) /\ ret = NoRet)

\* C4 as stated: with no "__all__" key stored, apply on a dataset fails
\* with the missing-group error when one of its chunks has no stored
\* parameters and succeeds when all of them have.
C4_AsStated ==
    (/\ op = "forward_dataset"
     /\ params_dict # None
     /\ "__all__" \notin DOMAIN params_dict)
    => IF Unique(arg.chunks) \subseteq DOMAIN params_dict
       THEN exc = "ok" ELSE exc = "MissingGroup"

\* C4, amended: the same with a chunks attribute configured and the stored
\* per-feature vectors of the dataset's chunks as long as the dataset has
\* features; the sizes of the chunks and the chunks seen at fit time that
\* the dataset lacks do not matter.  With no chunks attribute configured
\* the call fails on the lookup of the attribute.
C4_MissingGroup ==
    (/\ op = "forward_dataset"
     /\ params_dict # None
     /\ "__all__" \notin DOMAIN params_dict)
    => IF chunks = "None" THEN exc = "AttributeError"
       ELSE ShapesFit
            => IF Unique(arg.chunks) \subseteq DOMAIN params_dict
               THEN exc = "ok" ELSE exc = "MissingGroup"

C4_Witness ==
    /\ op = "forward_dataset"
    /\ params = None
    /\ chunks = "chunks"
    /\ DOMAIN params_dict = {"c1"}
    /\ arg.chunks = <<"c1", "c2">>
    /\ ShapesFit
    /\ exc = "MissingGroup"

\* C5: apply on a plain array fails with the plain-array error whenever
\* chunks or a selector is configured, trained or not and whatever is
\* stored; it succeeds only with both absent and a trained mapper, and
\* then the result is the array rescaled with the "__all__" pair.
C5_BareMatrix ==
    op = "forward_data"
    => /\ (chunks # "None" \/ param_est # None)
              => (exc = "BareMatrix" /\ ret = NoRet)
       /\ exc = "ok"
              => /\ chunks = "None"
                 /\ param_est = None
                 /\ params_dict # None
                 /\ "__all__" \in DOMAIN params_dict
                 /\ ret = [kind |-> "array", buf |-> "out"]
                 /\ heap.out.rows =
                      [i \in DOMAIN arg.rows |-> [j \in 1..arg.nf |->
                          ZValue(arg.rows[i][j], params_dict["__all__"], j)]]

C5_Witness ==
    /\ op = "forward_data"
    /\ chunks = "chunks"
    /\ param_est = None
    /\ params_dict # None
    /\ "__all__" \in DOMAIN params_dict
    /\ exc = "BareMatrix"

\* C6: after fit and apply on the same dataset, chunk-wise or global, a
\* feature that is constant over a group (with a row admitted to the
\* estimation) is exactly zero in every row of the group and the call
\* raises nothing; the features of the group with a non-zero std are
\* (x - mean) / std.
C6_ZeroStdColumn ==
    (op = "forward_dataset" /\ FittedOnArg)
    => /\ exc = "ok"
       /\ \A key \in GroupKeys(arg) : \A j \in 1..arg.nf :
            \A st \in {StatsOver(arg, Eligible(arg, key))} :
              /\ (/\ Eligible(arg, key) # {}
                  /\ \A i, k \in GroupRows(arg, key) :
                        arg.rows[i][j] = arg.rows[k][j])
                 => \A i \in GroupRows(arg, key) : heap[ret.buf].rows[i][j] = Zero
              /\ (IsFinite(st.std.v[j]) /\ st.std.v[j] # Zero)
                 => \A i \in GroupRows(arg, key) :
                       heap[ret.buf].rows[i][j] =
                          Div(Sub(arg.rows[i][j], st.mean.v[j]), st.std.v[j])

\* C7: with a selector configured, fit completes and stores for each group
\* the (mean, std) of the rows of the group that the selector admits, and
\* apply rescales every row of a group, admitted or not, with them.
C7_SelectorEstimation ==
    /\ (op = "train" /\ params = None /\ param_est # None)
       => /\ exc = "ok"
          /\ DOMAIN params_dict = GroupKeys(arg)
          /\ \A key \in GroupKeys(arg) :
                params_dict[key] = StatsOver(arg, Eligible(arg, key))
    /\ (/\ op = "forward_dataset" /\ params = None /\ param_est # None
        /\ exc = "ok")
       => \A i \in DOMAIN arg.rows : \A j \in 1..arg.nf :
             \A key \in {IF chunks = "None" THEN "__all__" ELSE arg.chunks[i]} :
                heap[ret.buf].rows[i][j] =
                    ZValue(arg.rows[i][j], params_dict[key], j)

\* what holds of the selector: the statement of C7 with chunks configured
SelectorEstimationPerChunk ==
    chunks # "None" => C7_SelectorEstimation

\* C8: on a dataset whose samples all carry one chunk value, fit and apply
\* with chunks configured give the matrix that fit and apply without chunks
\* give, under the same selector and dtype.
C8_GroupedEqualsGlobal ==
    (/\ op = "forward_dataset"
     /\ chunks # "None"
     /\ Cardinality(Unique(arg.chunks)) = 1
     /\ FittedOnArg)
    => \A t \in {_train("None", params, param_est, arg)} :
          /\ t.exc = "ok"
          /\ \A m \in {_forward_dataset("None", t.params_dict, dtype, inplace,
                                        arg, <<>>)} :
                /\ m.exc = exc
                /\ m.exc = "ok"
                /\ m.heap[m.ret.buf] = heap[ret.buf]

\* what holds of the equivalence: the statement of C8 without a selector
GroupedEqualsGlobalNoSelector ==
    param_est = None => C8_GroupedEqualsGlobal

\* the dictionary a completed fit on the dataset ds stores
FitOf(ds) ==
    IF params # None
    THEN (IF params.kind = "dict" THEN params.d ELSE "__all__" :> Pair(params))
    ELSE [key \in GroupKeys(ds) |-> StatsOver(ds, Eligible(ds, key))]

C10_PartialInPlace ==
    (op = "forward_dataset" /\ inplace /\ exc = "MissingGroup")
    => /\ ret = NoRet
       /\ \A i \in DOMAIN arg.rows :
            IF \E k \in DOMAIN done : done[k] = arg.chunks[i]
            THEN \A j \in 1..arg.nf :
                    heap[dsref].rows[i][j] =
                        ZValue(arg.rows[i][j], params_dict[arg.chunks[i]], j)
            ELSE heap[dsref].rows[i] = arg.rows[i]

C10_Witness ==
    /\ op = "forward_dataset"
    /\ inplace
    /\ exc = "MissingGroup"
    /\ done = <<"c1">>
    /\ arg.chunks = <<"c1", "c2">>
    /\ heap[dsref].rows[1] # arg.rows[1]
    /\ heap[dsref].rows[2] = arg.rows[2]

===========================================================================
